---- MODULE Spec2Model ----
(***************************************************************************)
(* A model of nlp_architect/models/libert/deberta_model.py: the            *)
(* configuration extension, the construction of the disentangled           *)
(* self-attention module, one call of its forward (with the bias           *)
(* computation disentangled_att_bias), one call of the token               *)
(* classifier's forward with and without virtual adversarial training,     *)
(* and one call of the model's forward through the encoder's layers.       *)
(*                                                                         *)
(* Tensors are functions from index tuples to integers.  Learned           *)
(* parameters are fixed tables of small integers; the inputs of a call     *)
(* are drawn from bounded sets in the initial state.                       *)
(***************************************************************************)
EXTENDS Integers, Sequences, FiniteSets, TLC

VARIABLES
    \* ---- configuration and construction
    cfg,        \* the configuration object (its attributes)
    cfgStage,   \* "base" | "extended" | "AssertionError"
    attn,       \* the constructed self-attention module, or its failure
    \* ---- one call of CustomDisentangledSelfAttention.forward
    apc,        \* position in the call
    amod,       \* the module the call runs on (attributes set by __init__)
    ain,        \* the arguments of the call
    aloc,       \* the locals of forward / disentangled_att_bias
    aerr,       \* the exception the call raised, "none" while it has not
    amm,        \* matrix multiplications performed so far in the call
    \* ---- one call of CustomDebertaForTokenClassification.forward
    cpc,        \* position in the call
    cin,        \* the arguments of the call
    cloc,       \* the locals of forward
    cgrad,      \* the .grad of the model's parameters
    ctrace,     \* the steps performed so far, in order
    cerr,       \* the exception the call raised, "none" while it has not
    \* ---- one call of CustomDebertaModel.forward
    mpc,        \* position in the call
    marg,       \* the model (its attributes) and the arguments of the call
    mloc,       \* the locals of forward and of the encoder's forward
    merr        \* the exception the call raised, "none" while it has not

cfgVars == <<cfg, cfgStage, attn>>
attVars == <<apc, amod, ain, aloc, aerr, amm>>
clsVars == <<cpc, cin, cloc, cgrad, ctrace, cerr>>
mdlVars == <<mpc, marg, mloc, merr>>
vars == <<cfg, cfgStage, attn, apc, amod, ain, aloc, aerr, amm,
          cpc, cin, cloc, cgrad, ctrace, cerr, mpc, marg, mloc, merr>>

\* ------------------------------------------------------------------ bounds
MaxHiddenSize == 6
MaxNumHeads == 3
BatchSize == 1          \* sequences in a batch
NumHeads == 2           \* attention heads of the module under call
HeadSize == 1           \* attention_head_size of the module under call
SeqLen == 2             \* tokens of hidden_states (the key length)
MaxRelativePositions == 3   \* config.max_relative_positions
MaxRank == 5            \* largest rank of a supplied relative_pos
NumSeeds == 1           \* distinct hidden-state inputs
MaxScalar == 2          \* largest c2m_scalar / m2c_scalar
MaxOffset == 2          \* largest shift of a supplied relative_pos

\* The attribute is absent / the argument is None.
None == "None"

\* The position-attention types the pretrained configuration may list.
BasePosAttTypes == SUBSET {"c2p", "p2c"}

(***************************************************************************)
(* CustomDebertaConfig                                                     *)
(***************************************************************************)

\* The hyper-parameter namespaces add_extra_args may be given: every flag it
\* reads with getattr(hparams, name, default).
HParams ==
    [c2p_att_pp : BOOLEAN, p2c_att_pp : BOOLEAN, c2m : BOOLEAN, m2c : BOOLEAN,
     mark_enhanced_classifier : BOOLEAN, pivot_phrase_embeddings : BOOLEAN,
     c2m_scalar : 1..MaxScalar, m2c_scalar : 1..MaxScalar]

\* A configuration add_extra_args was not called on: getattr(config, ...)
\* yields the defaults, and the mark_embeddings attribute does not exist.
BaseConfig(hidden, heads, types, relatt) ==
    [hidden_size |-> hidden, num_attention_heads |-> heads,
     pos_att_type |-> types, relative_attention |-> relatt,
     c2p_att_pp_enabled |-> FALSE, p2c_att_pp_enabled |-> FALSE,
     c2m |-> FALSE, m2c |-> FALSE, c2m_scalar |-> 1, m2c_scalar |-> 1,
     mark_enhanced_classifier |-> FALSE,
     pivot_phrase_embeddings |-> FALSE, has_mark_embeddings |-> FALSE]

\* The attributes add_extra_args sets, all of them before its assertion.
ExtendedConfig(c, hp) ==
    [c EXCEPT !.c2p_att_pp_enabled = hp.c2p_att_pp,
              !.p2c_att_pp_enabled = hp.p2c_att_pp,
              !.c2m = hp.c2m, !.m2c = hp.m2c,
              !.c2m_scalar = hp.c2m_scalar, !.m2c_scalar = hp.m2c_scalar,
              !.mark_enhanced_classifier = hp.mark_enhanced_classifier,
              !.pivot_phrase_embeddings = hp.pivot_phrase_embeddings,
              !.has_mark_embeddings = TRUE]

\* The mutant of the assertion's condition: the mark-enhanced classifier is
\* counted with the pivot-phrase flags.
MarksAndPivotPhrase_Mutant(c) ==
    (c.c2m \/ c.m2c)
    /\ (c.c2p_att_pp_enabled \/ c.p2c_att_pp_enabled \/ c.mark_enhanced_classifier)

\* The condition whose negation add_extra_args asserts.
MarksAndPivotPhrase(c) ==
    (c.c2m \/ c.m2c) /\ (c.c2p_att_pp_enabled \/ c.p2c_att_pp_enabled)

\* config.add_extra_args(hparams)
AddExtraArgs(hp) ==
    /\ cfgStage = "base"
    /\ cfg' = ExtendedConfig(cfg, hp)
    /\ cfgStage' = IF MarksAndPivotPhrase(ExtendedConfig(cfg, hp))
                   THEN "AssertionError" ELSE "extended"
    /\ UNCHANGED <<attn, attVars, clsVars, mdlVars>>

(***************************************************************************)
(* CustomDisentangledSelfAttention.__init__                                *)
(***************************************************************************)

\* The mutant of the divisibility check: it never fires.
NotMultiple_Mutant(c) == FALSE

\* The condition on which __init__ raises ValueError.
NotMultiple(c) == c.hidden_size % c.num_attention_heads # 0

\* self.pos_att_type after __init__: the configured list, with each enabled
\* extra term appended once.
PosAttType(c) ==
    c.pos_att_type
    \cup (IF c.c2p_att_pp_enabled THEN {"c2p_pp"} ELSE {})
    \cup (IF c.p2c_att_pp_enabled THEN {"p2c_pp"} ELSE {})
    \cup (IF c.c2m THEN {"c2m"} ELSE {})
    \cup (IF c.m2c THEN {"m2c"} ELSE {})

\* The attributes __init__ sets on the module.
NewSelfAttention(c) ==
    [state |-> "built",
     num_attention_heads |-> c.num_attention_heads,
     attention_head_size |-> c.hidden_size \div c.num_attention_heads,
     all_head_size |-> c.num_attention_heads
                        * (c.hidden_size \div c.num_attention_heads),
     pos_att_type |-> PosAttType(c),
     relative_attention |-> c.relative_attention,
     c2m_scalar |-> c.c2m_scalar, m2c_scalar |-> c.m2c_scalar,
     max_relative_positions |-> MaxRelativePositions,
     has_pos_proj |-> c.relative_attention /\ "c2p" \in PosAttType(c),
     has_pos_q_proj |-> c.relative_attention /\ "p2c" \in PosAttType(c)]

NoSelfAttention == [state |-> "none"]

\* CustomDisentangledSelfAttention(config)
ConstructSelfAttention ==
    /\ cfgStage \in {"base", "extended"}
    /\ attn.state = "none"
    /\ attn' = IF NotMultiple(cfg) THEN [state |-> "ValueError"]
               ELSE NewSelfAttention(cfg)
    /\ UNCHANGED <<cfg, cfgStage, attVars, clsVars, mdlVars>>

InitCfg ==
    \E hidden \in 1..MaxHiddenSize, heads \in 1..MaxNumHeads,
       types \in BasePosAttTypes, relatt \in BOOLEAN :
        /\ cfg = BaseConfig(hidden, heads, types, relatt)
        /\ cfgStage = "base"
        /\ attn = NoSelfAttention
        /\ apc = "idle" /\ amod = NoSelfAttention /\ ain = None
        /\ aloc = None /\ aerr = "none" /\ amm = 0
        /\ cpc = "idle" /\ cin = None /\ cloc = None /\ cgrad = None
        /\ ctrace = <<>> /\ cerr = "none"
        /\ mpc = "idle" /\ marg = None /\ mloc = None /\ merr = "none"

NextCfg ==
    \/ \E hp \in HParams : AddExtraArgs(hp)
    \/ ConstructSelfAttention

SpecCfg == InitCfg /\ [][NextCfg]_vars

(***************************************************************************)
(* Tensors and learned parameters                                          *)
(***************************************************************************)

\* A local that no statement has assigned yet, a local or argument that is
\* None, and one that holds the tensor x.
Unbound == [st |-> "unbound"]
NoneT == [st |-> "None"]
Tensor(x) == [st |-> "tensor", v |-> x]

BIdx == 1..BatchSize
HIdx == 1..NumHeads
DIdx == 1..HeadSize
KIdx == 1..SeqLen
HiddenSize == NumHeads * HeadSize
HidIdx == 1..HiddenSize

RECURSIVE SumOver(_, _)
\* The sum of f over the indices 1..n.
SumOver(f, n) == IF n = 0 THEN 0 ELSE f[n] + SumOver(f, n - 1)

\* A fixed table of small integers standing for learned weights and inputs.
Val(salt, a, b, c) ==
    ((salt * salt + 3 * a + 5 * b + 7 * c + a * b * c + salt * a + 2 * salt * c)
     % 7) - 3

\* encoder.rel_embeddings.weight: 2 * max_relative_positions rows.
RelEmbeddings ==
    [r \in 0..(2 * MaxRelativePositions - 1) |-> [i \in HidIdx |-> Val(1, r, i, 0)]]

\* encoder.pivot_phrase_embeddings.weight: 2 * max_relative_positions rows.
PivotPhraseEmbeddings ==
    [r \in 0..(2 * MaxRelativePositions - 1) |-> [i \in HidIdx |-> Val(2, r, i, 1)]]

\* encoder.mark_embeddings.weight: one row for mark 0, one for mark 1.
MarkEmbeddingWeight == [m \in {0, 1} |-> [i \in HidIdx |-> Val(3, m, i, 2)]]

\* The weights of pos_proj, pos_q_proj, mark_proj and mark_q_proj, and the
\* biases of the three that have one.
PosProjW == [o \in HidIdx |-> [i \in HidIdx |-> Val(4, o, i, 0)]]
PosQProjW == [o \in HidIdx |-> [i \in HidIdx |-> Val(5, o, i, 1)]]
PosQProjB == [o \in HidIdx |-> Val(6, o, 0, 1)]
MarkProjW == [o \in HidIdx |-> [i \in HidIdx |-> Val(7, o, i, 2)]]
MarkProjB == [o \in HidIdx |-> Val(8, o, 1, 0)]
MarkQProjW == [o \in HidIdx |-> [i \in HidIdx |-> Val(9, o, i, 3)]]
MarkQProjB == [o \in HidIdx |-> Val(10, o, 2, 1)]
NoBias == [o \in HidIdx |-> 0]

\* torch.nn.Linear applied to one row x: x W^T + b.
Linear(W, b, x) ==
    [o \in HidIdx |-> SumOver([i \in HidIdx |-> W[o][i] * x[i]], HiddenSize) + b[o]]

\* transpose_for_scores on a table of rows: the hidden axis split into
\* (head, head-size), the head axis moved in front of the row axis.
TransposeForScores(rows) ==
    [t \in HIdx \X (DOMAIN rows) \X DIdx |-> rows[t[2]][(t[1] - 1) * HeadSize + t[3]]]

Clamp(x, lo, hi) == IF x < lo THEN lo ELSE IF x > hi THEN hi ELSE x
Min(a, b) == IF a < b THEN a ELSE b
Max(a, b) == IF a > b THEN a ELSE b


(***************************************************************************)
(* CustomDisentangledSelfAttention.forward and disentangled_att_bias       *)
(***************************************************************************)

\* The (batch, head, query, key) indices of a score tensor.
Idx4(qlen) == BIdx \X HIdx \X (1..qlen) \X KIdx

\* query_layer after the projection, the bias and the scaling: one value per
\* (batch, head, query position, head-size index).
QueryLayer(seed, qlen) ==
    [t \in BIdx \X HIdx \X (1..qlen) \X DIdx |->
        Val(10 + seed, t[1] + 2 * t[2], t[3], t[4])]

\* key_layer after the projection.
KeyLayer(seed) ==
    [t \in BIdx \X HIdx \X KIdx \X DIdx |->
        Val(20 + seed, t[1] + 2 * t[2], t[3], t[4])]

\* torch.matmul(x, y.transpose(-1, -2)) of two (batch, head, row, size)
\* tensors with xlen and ylen rows.
MatMulT(x, y, xlen, ylen) ==
    [t \in BIdx \X HIdx \X (1..xlen) \X (1..ylen) |->
        SumOver([d \in DIdx |-> x[<<t[1], t[2], t[3], d>>] * y[<<t[1], t[2], t[4], d>>]],
                HeadSize)]

\* torch.matmul(x, table.transpose(-1, -2)) of a (batch, head, row, size)
\* tensor and a projected embedding table (head, table row, size).
MatMulTable(x, table, xlen, span) ==
    [t \in BIdx \X HIdx \X (1..xlen) \X (0..(2 * span - 1)) |->
        SumOver([d \in DIdx |-> x[<<t[1], t[2], t[3], d>>] * table[<<t[2], t[4], d>>]],
                HeadSize)]

\* The value of a supplied relative_pos for query position q and key
\* position k: the distance q - k, shifted by the caller's offset.
RelPosAt(rp, q, k) == (q - k) + rp.off

\* Mutants of the rank check: rank 5 passes it; rank 4 does not.
RankRejected_Mutant(rank) == rank \notin {2, 3, 4, 5}
RankRejected_Mutant2(rank) == rank # 2 /\ rank # 3

\* The rank check fails: dim() is neither 2 nor 3 nor 4.
RankRejected(rank) == rank # 2 /\ rank # 3 /\ rank # 4

\* The rank after the unsqueeze calls of the rank check.
ExpandedRank(rank) ==
    IF rank = 2 THEN rank + 2 ELSE IF rank = 3 THEN rank + 1 ELSE rank

\* att_span
AttSpan(qlen, maxrel) == Min(Max(qlen, SeqLen), maxrel)

\* table[max_rel - att_span : max_rel + att_span, :], rows renumbered from 0.
SliceSpan(table, maxrel, span) ==
    [r \in 0..(2 * span - 1) |-> table[maxrel - span + r]]

\* transpose_for_scores(proj(rows)) for a table of embedding rows.
ProjectTable(W, b, rows) ==
    TransposeForScores([r \in DOMAIN rows |-> Linear(W, b, rows[r])])

\* The per-token mark embeddings the encoder builds from marks:
\* where(marks == 0, weight[0], weight[1]).
MarkTokenEmbeddings(marks) ==
    [t \in BIdx \X KIdx |->
        IF marks[t] = 0 THEN MarkEmbeddingWeight[0] ELSE MarkEmbeddingWeight[1]]

\* transpose_for_scores(proj(x)) for per-token embeddings (batch, token).
ProjectTokens(W, b, x) ==
    [t \in BIdx \X HIdx \X KIdx \X DIdx |->
        Linear(W, b, x[<<t[1], t[3]>>])[(t[2] - 1) * HeadSize + t[4]]]

\* The exception lines 341-373 raise, "none" when they raise none.  me is
\* the kind of mark_embeddings the call was given.
ProjectionError(m, me) ==
    LET types == m.pos_att_type
        pp == "c2p_pp" \in types \/ "p2c_pp" \in types
    IN  IF pp /\ me = None THEN "TypeError"
        ELSE IF "c2p_pp" \in types /\ ~m.has_pos_proj THEN "AttributeError"
        ELSE IF "c2p_pp" \in types /\ me = "marks" THEN "RuntimeError"
        ELSE IF "p2c_pp" \in types /\ ~m.has_pos_q_proj THEN "AttributeError"
        ELSE IF "p2c_pp" \in types /\ me = "marks" THEN "RuntimeError"
        ELSE IF ("m2c" \in types \/ "c2m" \in types) /\ me = None THEN "TypeError"
        ELSE IF ("m2c" \in types \/ "c2m" \in types) /\ me = "pivot_phrase"
             THEN "RuntimeError"
        ELSE "none"

\* Projections the call performs in lines 351-373 when it raises nothing.
ProjectionCount(m) ==
    Cardinality(m.pos_att_type \cap {"c2p", "p2c", "c2p_pp", "p2c_pp", "m2c", "c2m"})

\* The mutant of line 379: the upper limit of the clamp is 2 * att_span.
C2pPos_Mutant(rp, span, q, k) == Clamp(RelPosAt(rp, q, k) + span, 0, 2 * span)

\* torch.clamp(relative_pos + att_span, 0, 2 * att_span - 1)
C2pPos(rp, span, q, k) == Clamp(RelPosAt(rp, q, k) + span, 0, 2 * span - 1)

\* torch.clamp(-r_pos + att_span, 0, 2 * att_span - 1)
P2cPos(rp, span, i, j) == Clamp((0 - RelPosAt(rp, i, j)) + span, 0, 2 * span - 1)

\* torch.gather(matmul(query_layer, pos_key^T), -1, c2p_dynamic_expand(c2p_pos))
C2pGather(query, pos_key, rp, span, qlen) ==
    LET raw == MatMulTable(query, pos_key, qlen, span)
    IN  [t \in Idx4(qlen) |-> raw[<<t[1], t[2], t[3], C2pPos(rp, span, t[3], t[4])>>]]

\* torch.gather(matmul(key_layer, pos_query^T), -1, p2c_dynamic_expand(p2c_pos)):
\* rows are key positions.
P2cGather(key, pos_query, rp, span) ==
    LET raw == MatMulTable(key, pos_query, SeqLen, span)
    IN  [t \in BIdx \X HIdx \X KIdx \X KIdx |->
            raw[<<t[1], t[2], t[3], P2cPos(rp, span, t[3], t[4])>>]]

\* x.transpose(-1, -2) of a square score tensor.
TransposeLast(x) ==
    [t \in BIdx \X HIdx \X KIdx \X KIdx |-> x[<<t[1], t[2], t[4], t[3]>>]]

\* The mutant of the c2p selection: the pivot-phrase value is added to the
\* standard value where the mark is 1.
WhereKeyMarked_Mutant(marks, pp, std) ==
    [t \in DOMAIN std |->
        IF marks[<<t[1], t[4]>>] = 1 THEN pp[t] + std[t] ELSE std[t]]

\* torch.where(reshape(marks, (B, 1, 1, S)) == 1, pp, std): the mark of the
\* key position selects.
WhereKeyMarked(marks, pp, std) ==
    [t \in DOMAIN std |-> IF marks[<<t[1], t[4]>>] = 1 THEN pp[t] ELSE std[t]]

\* torch.where(reshape(marks, (B, 1, S, 1)) == 1, pp, std): the mark of the
\* query position selects.
WhereQueryMarked(marks, pp, std) ==
    [t \in DOMAIN std |-> IF marks[<<t[1], t[3]>>] = 1 THEN pp[t] ELSE std[t]]

\* x + y and x * c, elementwise.
AddT(x, y) == [t \in DOMAIN x |-> x[t] + y[t]]
ScaleT(x, c) == [t \in DOMAIN x |-> x[t] * c]
ZeroT(qlen) == [t \in Idx4(qlen) |-> 0]

\* The locals of a call before its first statement.
NoLocals ==
    [query_layer |-> Unbound, key_layer |-> Unbound, c2c |-> Unbound,
     rank |-> 0, att_span |-> 0,
     pos_key_layer |-> Unbound, pos_query_layer |-> Unbound,
     pp_key_layer |-> Unbound, pp_query_layer |-> Unbound,
     mark_key_layer |-> Unbound, mark_query_layer |-> Unbound,
     score |-> Unbound,
     c2p_att |-> Unbound, c2p_att_orig |-> Unbound, c2p_att_pp |-> Unbound,
     p2c_att |-> Unbound, p2c_att_orig |-> Unbound, p2c_att_pp |-> Unbound,
     c2m_att |-> Unbound, m2c_att |-> Unbound,
     rel_att |-> NoneT, attention_scores |-> Unbound]

\* The call raises exception e and ends.
AttRaise(e) ==
    /\ aerr' = e
    /\ apc' = "raised"

\* forward, lines 261-289: the projections of hidden_states (and of
\* query_states), the scaling, and the content-to-content scores.
ForwardScores ==
    /\ apc = "start"
    /\ LET q == QueryLayer(ain.seed, ain.query_len)
           k == KeyLayer(ain.seed)
           c2c == MatMulT(q, k, ain.query_len, SeqLen)
       IN  aloc' = [aloc EXCEPT !.query_layer = Tensor(q), !.key_layer = Tensor(k),
                                !.attention_scores = Tensor(c2c),
                                !.c2c = Tensor(c2c)]
    /\ amm' = amm + 2
    /\ apc' = IF amod.relative_attention THEN "bias_relative_pos" ELSE "accumulate"
    /\ UNCHANGED <<amod, ain, aerr, cfgVars, clsVars, mdlVars>>

\* disentangled_att_bias, lines 330-339: the relative positions are built
\* when None (build_relative_position is no name of the module), and their
\* rank is checked.
BiasRelativePos ==
    /\ apc = "bias_relative_pos"
    /\ IF ain.relative_pos.st = "None"
       THEN AttRaise("NameError") /\ UNCHANGED aloc
       ELSE IF RankRejected(ain.relative_pos.rank)
       THEN AttRaise("ValueError") /\ UNCHANGED aloc
       ELSE /\ aloc' = [aloc EXCEPT !.rank = ExpandedRank(ain.relative_pos.rank)]
            /\ apc' = "bias_projections"
            /\ UNCHANGED aerr
    /\ UNCHANGED <<amod, ain, amm, cfgVars, clsVars, mdlVars>>

\* disentangled_att_bias, lines 341-373: att_span, the slices of the
\* embedding tables, and the projections of the enabled terms.
BiasProjections ==
    /\ apc = "bias_projections"
    /\ LET types == amod.pos_att_type
           span == AttSpan(ain.query_len, amod.max_relative_positions)
           rel == SliceSpan(RelEmbeddings, amod.max_relative_positions, span)
           ppe == SliceSpan(PivotPhraseEmbeddings, amod.max_relative_positions, span)
           tok == MarkTokenEmbeddings(ain.marks.v)
       IN  IF ProjectionError(amod, ain.mark_embeddings) # "none"
           THEN /\ AttRaise(ProjectionError(amod, ain.mark_embeddings))
                /\ UNCHANGED <<aloc, amm>>
           ELSE /\ aloc' =
                    [aloc EXCEPT
                       !.att_span = span,
                       !.pos_key_layer =
                           IF "c2p" \in types
                           THEN Tensor(ProjectTable(PosProjW, NoBias, rel)) ELSE Unbound,
                       !.pos_query_layer =
                           IF "p2c" \in types
                           THEN Tensor(ProjectTable(PosQProjW, PosQProjB, rel)) ELSE Unbound,
                       !.pp_key_layer =
                           IF "c2p_pp" \in types
                           THEN Tensor(ProjectTable(PosProjW, NoBias, ppe)) ELSE Unbound,
                       !.pp_query_layer =
                           IF "p2c_pp" \in types
                           THEN Tensor(ProjectTable(PosQProjW, PosQProjB, ppe)) ELSE Unbound,
                       !.mark_query_layer =
                           IF "m2c" \in types
                           THEN Tensor(ProjectTokens(MarkQProjW, MarkQProjB, tok)) ELSE Unbound,
                       !.mark_key_layer =
                           IF "c2m" \in types
                           THEN Tensor(ProjectTokens(MarkProjW, MarkProjB, tok)) ELSE Unbound,
                       !.score = Tensor(ZeroT(ain.query_len))]
                /\ amm' = amm + ProjectionCount(amod)
                /\ apc' = "bias_c2p"
                /\ UNCHANGED aerr
    /\ UNCHANGED <<amod, ain, cfgVars, clsVars, mdlVars>>

\* The pivot-phrase branch of a term is taken.
PivotPhraseGiven(term) ==
    /\ ain.mark_embeddings # None
    /\ ain.marks.st # "None"
    /\ term \in amod.pos_att_type

\* disentangled_att_bias, lines 375-399: the content-to-position term, its
\* pivot-phrase variant and the selection between the two.
BiasC2P ==
    /\ apc = "bias_c2p"
    /\ IF "c2p" \in amod.pos_att_type
       THEN LET std == C2pGather(aloc.query_layer.v, aloc.pos_key_layer.v,
                                 ain.relative_pos, aloc.att_span, ain.query_len)
                pp == C2pGather(aloc.query_layer.v, aloc.pp_key_layer.v,
                                ain.relative_pos, aloc.att_span, ain.query_len)
                sel == IF PivotPhraseGiven("c2p_pp")
                       THEN WhereKeyMarked(ain.marks.v, pp, std) ELSE std
            IN  /\ aloc' = [aloc EXCEPT
                              !.c2p_att = Tensor(sel),
                              !.c2p_att_orig = Tensor(std),
                              !.c2p_att_pp =
                                  IF PivotPhraseGiven("c2p_pp")
                                  THEN Tensor(pp) ELSE NoneT,
                              !.score = Tensor(AddT(aloc.score.v, sel))]
                /\ amm' = amm + (IF PivotPhraseGiven("c2p_pp") THEN 2 ELSE 1)
       ELSE UNCHANGED <<aloc, amm>>
    /\ apc' = "bias_p2c"
    /\ UNCHANGED <<amod, ain, aerr, cfgVars, clsVars, mdlVars>>

\* disentangled_att_bias, lines 401-441: the position-to-content term, its
\* pivot-phrase variant and the selection between the two.  With query and
\* key lengths that differ the relative positions are rebuilt
\* (build_relative_position is no name of the module).
BiasP2C ==
    /\ apc = "bias_p2c"
    /\ IF "p2c" \notin amod.pos_att_type
       THEN /\ apc' = "bias_marks"
            /\ UNCHANGED <<aloc, amm, aerr>>
       ELSE IF ain.query_len # SeqLen
       THEN AttRaise("NameError") /\ UNCHANGED <<aloc, amm>>
       ELSE LET std == TransposeLast(P2cGather(aloc.key_layer.v,
                                               aloc.pos_query_layer.v,
                                               ain.relative_pos, aloc.att_span))
                pp == P2cGather(aloc.key_layer.v, aloc.pp_query_layer.v,
                                ain.relative_pos, aloc.att_span)
                sel == IF PivotPhraseGiven("p2c_pp")
                       THEN WhereQueryMarked(ain.marks.v, pp, std) ELSE std
            IN  /\ aloc' = [aloc EXCEPT
                              !.p2c_att = Tensor(sel),
                              !.p2c_att_orig = Tensor(std),
                              !.p2c_att_pp =
                                  IF PivotPhraseGiven("p2c_pp")
                                  THEN Tensor(pp) ELSE NoneT,
                              !.score = Tensor(AddT(aloc.score.v, sel))]
                /\ amm' = amm + (IF PivotPhraseGiven("p2c_pp") THEN 2 ELSE 1)
                /\ apc' = "bias_marks"
                /\ UNCHANGED aerr
    /\ UNCHANGED <<amod, ain, cfgVars, clsVars, mdlVars>>

\* The score after the content-to-mark term of lines 444-448.
WithC2m(score, c2m) == AddT(score, c2m)

\* disentangled_att_bias, lines 443-454: the content-to-mark and the
\* mark-to-content terms, each scaled by its scalar.  The mark-to-content
\* term has one row per token of hidden_states: it cannot be added to a
\* score of another query length.
BiasMarks ==
    /\ apc = "bias_marks"
    /\ LET types == amod.pos_att_type
           c2m == IF "c2m" \in types
                  THEN Tensor(ScaleT(MatMulT(aloc.query_layer.v,
                                             aloc.mark_key_layer.v,
                                             ain.query_len, SeqLen),
                                     amod.c2m_scalar))
                  ELSE NoneT
           m2c == IF "m2c" \in types
                  THEN Tensor(ScaleT(MatMulT(aloc.mark_query_layer.v,
                                             aloc.key_layer.v, SeqLen, SeqLen),
                                     amod.m2c_scalar))
                  ELSE NoneT
           s1 == IF "c2m" \in types
                 THEN WithC2m(aloc.score.v, c2m.v) ELSE aloc.score.v
       IN  IF "m2c" \in types /\ ain.query_len # SeqLen
           THEN AttRaise("RuntimeError") /\ UNCHANGED <<aloc, amm>>
           ELSE /\ aloc' = [aloc EXCEPT
                              !.c2m_att = c2m, !.m2c_att = m2c,
                              !.score = Tensor(IF "m2c" \in types
                                               THEN AddT(s1, m2c.v) ELSE s1)]
                /\ amm' = amm + Cardinality(types \cap {"c2m", "m2c"})
                /\ apc' = "bias_output"
                /\ UNCHANGED aerr
    /\ UNCHANGED <<amod, ain, cfgVars, clsVars, mdlVars>>

\* disentangled_att_bias, lines 456-461: the returned tuple reads
\* c2p_att_orig and p2c_att_orig, which only the c2p and the p2c branch
\* assign.
BiasOutput ==
    /\ apc = "bias_output"
    /\ IF aloc.c2p_att_orig.st = "unbound" \/ aloc.p2c_att_orig.st = "unbound"
       THEN AttRaise("UnboundLocalError") /\ UNCHANGED aloc
       ELSE /\ aloc' = [aloc EXCEPT !.rel_att = aloc.score]
            /\ apc' = "accumulate"
            /\ UNCHANGED aerr
    /\ UNCHANGED <<amod, ain, amm, cfgVars, clsVars, mdlVars>>

\* forward, lines 295-302: the bias is added to the content-to-content
\* scores.
ForwardAccumulate ==
    /\ apc = "accumulate"
    /\ aloc' = [aloc EXCEPT
                  !.attention_scores =
                      IF aloc.rel_att.st # "None"
                      THEN Tensor(AddT(aloc.attention_scores.v, aloc.rel_att.v))
                      ELSE aloc.attention_scores]
    /\ apc' = "done"
    /\ UNCHANGED <<amod, ain, aerr, amm, cfgVars, clsVars, mdlVars>>

\* The binary mark tensors of a batch: every marking of the first sequence,
\* the sequences after it marked alternately by its complement and by it.
MarkTensors ==
    {Tensor([t \in BIdx \X KIdx |->
                IF t[1] % 2 = 1 THEN x[t[2]] ELSE 1 - x[t[2]]]) :
        x \in [KIdx -> {0, 1}]}

\* The relative_pos arguments: None, or a tensor of some rank holding the
\* distances shifted by an offset.
RelativePosArgs ==
    {NoneT} \cup [st : {"tensor"}, rank : 1..MaxRank, off : {0, MaxOffset}]

\* The modules a call may run on: built from a configuration that
\* add_extra_args accepted, for NumHeads heads of HeadSize.  The scalar of
\* an enabled mark term is the default 1 or MaxScalar.
AttentionModules ==
    {NewSelfAttention(ExtendedConfig(BaseConfig(HiddenSize, NumHeads, types, TRUE), hp)) :
        types \in BasePosAttTypes,
        hp \in {h \in HParams :
                  /\ ~MarksAndPivotPhrase(ExtendedConfig(
                          BaseConfig(HiddenSize, NumHeads, {}, TRUE), h))
                  /\ ~h.mark_enhanced_classifier /\ ~h.pivot_phrase_embeddings
                  /\ h.c2m_scalar \in (IF h.c2m THEN {1, MaxScalar} ELSE {1})
                  /\ h.m2c_scalar \in (IF h.m2c THEN {1, MaxScalar} ELSE {1})}}
    \cup {NewSelfAttention(BaseConfig(HiddenSize, NumHeads, types, FALSE)) :
            types \in BasePosAttTypes}

InitAtt ==
    \E m \in AttentionModules, rp \in RelativePosArgs,
       me \in {None, "pivot_phrase", "marks"},
       mk \in {NoneT} \cup MarkTensors,
       ql \in {SeqLen, SeqLen + 1}, sd \in 1..NumSeeds :
        /\ me = "marks" => mk.st # "None"
        /\ ~m.relative_attention =>
              me = None /\ mk.st = "None" /\ ql = SeqLen
        /\ amod = m
        /\ ain = [relative_pos |-> rp, mark_embeddings |-> me, marks |-> mk,
                  query_len |-> ql, seed |-> sd]
        /\ aloc = NoLocals
        /\ apc = "start" /\ aerr = "none" /\ amm = 0
        /\ cfg = BaseConfig(HiddenSize, NumHeads, {}, FALSE)
        /\ cfgStage = "base" /\ attn = NoSelfAttention
        /\ cpc = "idle" /\ cin = None /\ cloc = None /\ cgrad = None
        /\ ctrace = <<>> /\ cerr = "none"
        /\ mpc = "idle" /\ marg = None /\ mloc = None /\ merr = "none"

NextAtt ==
    \/ ForwardScores
    \/ BiasRelativePos
    \/ BiasProjections
    \/ BiasC2P
    \/ BiasP2C
    \/ BiasMarks
    \/ BiasOutput
    \/ ForwardAccumulate

SpecAtt == InitAtt /\ [][NextAtt]_vars

(***************************************************************************)
(* CustomDebertaForTokenClassification.forward, with the forward of        *)
(* CustomDebertaModel and of CustomDebertaEmbeddings it calls.             *)
(*                                                                         *)
(* Values are integers: the encoder stack stands as one linear map per     *)
(* token, layer normalisation as centring (hidden_size * x - sum(x)),      *)
(* dropout as the identity, and the cross entropy as a sum, over the       *)
(* positions it does not ignore, of a linear score of the logits.  What    *)
(* the model keeps of autograd is the graph of a tensor: the leaves its    *)
(* value was computed from while gradients were recorded.                  *)
(***************************************************************************)

\* CrossEntropyLoss().ignore_index, and the two aspect labels.
IgnoreIndex == -100
B_ASP_LABEL == 1
I_ASP_LABEL == 2

\* config.gamma and config.lr_adv, in units of the model's integers.
Gamma == 2
LrAdv == 3

TIdx == BIdx \X KIdx
EIdx == BIdx \X KIdx \X HidIdx
LabelIdx == 0..I_ASP_LABEL
NumLabels == Cardinality(LabelIdx)

\* A tensor with its autograd graph.
GradTensor(x, g) == [st |-> "tensor", v |-> x, graph |-> g]

\* The sum of f over every (sequence, token).
SumTokens(f) ==
    SumOver([b \in BIdx |-> SumOver([k \in KIdx |-> f[<<b, k>>]], SeqLen)], BatchSize)

\* word_embeddings(input_ids), a caller's inputs_embeds, the position
\* embeddings, and the weights of the encoder map and of the two classifiers.
WordEmbeddings == [t \in EIdx |-> Val(31, t[1], t[2], t[3])]
InputsEmbeds(seed) == [t \in EIdx |-> Val(32 + seed, t[1], t[2], t[3])]
PositionEmbeddings == [k \in KIdx |-> [i \in HidIdx |-> Val(34, k, i, 0)]]
EncoderW == [o \in HidIdx |-> [i \in HidIdx |-> Val(35, o, i, 1)]]
ClassifierW == [c \in LabelIdx |-> [j \in HidIdx |-> Val(36, c, j, 2)]]
ClassifierB == [c \in LabelIdx |-> Val(37, c, 1, 1)]
MarkClassifierW == [c \in LabelIdx |-> [j \in 1..(HiddenSize + 1) |-> Val(38, c, j, 3)]]
MarkClassifierB == [c \in LabelIdx |-> Val(39, c, 2, 2)]

\* CustomDebertaEmbeddings.forward, lines 514-515: inputs_embeds after the
\* in-place addition of the position embeddings.
AddPositions(embeds, biased) ==
    [t \in EIdx |-> embeds[t] + (IF biased THEN PositionEmbeddings[t[2]][t[3]] ELSE 0)]

\* self.LayerNorm(embeddings)
LayerNorm(e) ==
    [t \in EIdx |->
        HiddenSize * e[t] - SumOver([i \in HidIdx |-> e[<<t[1], t[2], i>>]], HiddenSize)]

\* attention_mask, torch.ones(input_shape) when it is None.
MaskOrOnes(mask) == IF mask.st = "None" THEN [t \in TIdx |-> 1] ELSE mask.v

\* embeddings * mask
MaskEmbeddings(e, mask) == [t \in EIdx |-> e[t] * mask[<<t[1], t[2]>>]]

\* The mutant of line 700: the perturbation is not added.
AddPerturbation_Mutant(e, gamma, p) == e

\* embedding_output += self.config.gamma * perturbation
AddPerturbation(e, gamma, p) == [t \in EIdx |-> e[t] + gamma * p[t]]

\* The encoder stack: sequence_output from embedding_output.
Encode(x) ==
    [t \in EIdx |->
        SumOver([i \in HidIdx |-> EncoderW[t[3]][i] * x[<<t[1], t[2], i>>]], HiddenSize)]

\* self.classifier(sequence_output)
Classifier(s) ==
    [t \in BIdx \X KIdx \X LabelIdx |->
        SumOver([j \in HidIdx |-> ClassifierW[t[3]][j] * s[<<t[1], t[2], j>>]], HiddenSize)
        + ClassifierB[t[3]]]

\* self.mark_enhanced_classifier(torch.cat((sequence_output, marks.unsqueeze(-1)), dim=-1))
MarkEnhancedClassifier(s, marks) ==
    [t \in BIdx \X KIdx \X LabelIdx |->
        SumOver([j \in HidIdx |-> MarkClassifierW[t[3]][j] * s[<<t[1], t[2], j>>]], HiddenSize)
        + MarkClassifierW[t[3]][HiddenSize + 1] * marks[<<t[1], t[2]>>]
        + MarkClassifierB[t[3]]]

\* The mutant of the masking of the labels: the labels are used as given.
ActiveLabels_Mutant(mask, labels) == labels

\* torch.where(attention_mask.view(-1) == 1, labels.view(-1), ignore_index),
\* the labels themselves when attention_mask is None.
ActiveLabels(mask, labels) ==
    IF mask.st = "None" THEN labels
    ELSE [t \in TIdx |-> IF mask.v[t] = 1 THEN labels[t] ELSE IgnoreIndex]

\* The score of one position under its label.
TokenLoss(logits, t, label) ==
    SumOver([c \in 1..NumLabels |-> logits[<<t[1], t[2], c - 1>>]], NumLabels)
    - NumLabels * logits[<<t[1], t[2], label>>]

\* loss_fct(logits, labels): positions labelled ignore_index add nothing.
CrossEntropyLoss(logits, labels) ==
    SumTokens([t \in TIdx |->
                 IF labels[t] = IgnoreIndex THEN 0 ELSE TokenLoss(logits, t, labels[t])])

\* The gradient of the loss with respect to the logits.
LogitGrad(labels) ==
    [t \in BIdx \X KIdx \X LabelIdx |->
        IF labels[<<t[1], t[2]>>] = IgnoreIndex THEN 0
        ELSE IF t[3] = labels[<<t[1], t[2]>>] THEN 1 - NumLabels ELSE 1]

\* The gradient of the loss with respect to sequence_output.
OutputGrad(labels) ==
    LET g == LogitGrad(labels)
    IN  [t \in EIdx |->
            SumOver([c \in 1..NumLabels |->
                        g[<<t[1], t[2], c - 1>>] * ClassifierW[c - 1][t[3]]], NumLabels)]

\* The gradient of the first-pass loss with respect to r_adv_masked.
PerturbationGrad(labels, gamma) ==
    LET g == OutputGrad(labels)
    IN  [t \in EIdx |->
            gamma * SumOver([j \in HidIdx |-> g[<<t[1], t[2], j>>] * EncoderW[j][t[3]]],
                            HiddenSize)]

\* The gradient of the loss with respect to classifier.weight.
ClassifierGrad(labels, s) ==
    LET g == LogitGrad(labels)
    IN  [t \in LabelIdx \X HidIdx |->
            SumTokens([p \in TIdx |-> g[<<p[1], p[2], t[1]>>] * s[<<p[1], p[2], t[2]>>]])]

\* The gradient of the loss with respect to the weight of the encoder map.
EncoderGrad(labels, x) ==
    LET g == OutputGrad(labels)
    IN  [t \in HidIdx \X HidIdx |->
            SumTokens([p \in TIdx |-> g[<<p[1], p[2], t[1]>>] * x[<<p[1], p[2], t[2]>>]])]

\* backward accumulates into .grad: it is set when None, added to otherwise.
Accumulate(grad, g) ==
    IF grad.st = "None" THEN Tensor(g) ELSE Tensor([t \in DOMAIN g |-> grad.v[t] + g[t]])

\* zero_grad on one parameter: a gradient that exists becomes zero.
ZeroGrad(grad) ==
    IF grad.st = "None" THEN grad ELSE Tensor([t \in DOMAIN grad.v |-> 0])

\* (labels == B_ASP_LABEL) + (labels == I_ASP_LABEL), repeated along the
\* hidden axis.
AspectIdxMask(labels) ==
    [t \in EIdx |->
        (IF labels[<<t[1], t[2]>>] = B_ASP_LABEL THEN 1 ELSE 0)
        + (IF labels[<<t[1], t[2]>>] = I_ASP_LABEL THEN 1 ELSE 0)]

\* torch.rand(aspect_idx_mask.size()): one sample per seed.
RAdv(seed) == [t \in EIdx |-> Val(40 + seed, t[1], t[2], t[3]) + 3]

\* x * y, elementwise.
MulT(x, y) == [t \in DOMAIN x |-> x[t] * y[t]]

\* The mutant of torch.no_grad(): the result keeps the graph of its operands.
UnderNoGrad_Mutant(graph) == graph

\* The graph of a tensor computed under torch.no_grad() from operands of
\* the given graph.
UnderNoGrad(graph) == {}

\* The mutant of line 927: the sum is not masked again.
NewPerturbation_Mutant(mask, r, lr, grad) == [t \in EIdx |-> r[t] + lr * grad[t]]

\* aspect_idx_mask * (r_adv_masked + self.config.lr_adv * r_adv_masked.grad)
NewPerturbation(mask, r, lr, grad) == [t \in EIdx |-> mask[t] * (r[t] + lr * grad[t])]

\* perturbation = 0
ZeroScalar == [st |-> "0"]

\* The locals of forward after its first statement.
NoClsLocals ==
    [perturbation |-> ZeroScalar, aspect_idx_mask |-> Unbound, r_adv |-> Unbound,
     r_adv_masked |-> Unbound, r_adv_masked_grad |-> NoneT,
     embeddings |-> Unbound, embedding_output |-> Unbound,
     sequence_output |-> Unbound, logits |-> Unbound,
     active_labels |-> Unbound, loss |-> Unbound, outputs |-> Unbound]

\* The mutant of line 877: the mode of the call is not looked at.
VatTrain_Mutant2 == cin.VAT

\* The mutant of line 877: without labels the call takes the plain path.
VatTrain_Mutant == cin.VAT /\ cin.mode = "train" /\ cin.labels.st # "None"

\* The call is the VAT pass of training.
VatTrain == cin.VAT /\ cin.mode = "train"

\* The call raises exception e and ends.
ClsRaise(e) ==
    /\ cerr' = e
    /\ cpc' = "raised"

\* The mutant of lines 673-680: input_ids with inputs_embeds is accepted.
InputsRejected_Mutant(kind) == kind = "neither"

\* CustomDebertaModel.forward, lines 673-680: both input_ids and
\* inputs_embeds are given, or neither is.
InputsRejected(kind) == kind \in {"both", "neither"}

\* The exception the forward of CustomDebertaModel raises, "none" when it
\* raises none: the check of the inputs (lines 673-680), then the encoder,
\* whose mark embeddings are built from marks (line 604).
ModelError ==
    IF InputsRejected(cin.input) THEN "ValueError"
    ELSE IF cin.marks.st = "None" THEN "TypeError"
    ELSE "none"

\* forward, lines 877-882: the aspect mask.  labels == B_ASP_LABEL is the
\* bool False when labels is None, which has no method to.
VatAspectMask ==
    /\ cpc = "start"
    /\ VatTrain
    /\ ctrace' = Append(ctrace, "aspect_mask")
    /\ IF cin.labels.st = "None"
       THEN ClsRaise("AttributeError") /\ UNCHANGED cloc
       ELSE /\ cloc' = [cloc EXCEPT
                          !.aspect_idx_mask = Tensor(AspectIdxMask(cin.labels.v))]
            /\ cpc' = "vat_sample"
            /\ UNCHANGED cerr
    /\ UNCHANGED <<cin, cgrad, cfgVars, attVars, mdlVars>>

\* forward, lines 884-886: the random perturbation and its masking.
VatSample ==
    /\ cpc = "vat_sample"
    /\ LET r == RAdv(cin.seed)
       IN  cloc' = [cloc EXCEPT
                      !.r_adv = GradTensor(r, {"r_adv"}),
                      !.r_adv_masked =
                          GradTensor(MulT(r, cloc.aspect_idx_mask.v), {"r_adv"})]
    /\ ctrace' = Append(ctrace, "r_adv")
    /\ cpc' = "vat_forward"
    /\ UNCHANGED <<cin, cgrad, cerr, cfgVars, attVars, mdlVars>>

\* One call of self.deberta with the given perturbation (lines 652-740):
\* the embeddings, which add the position embeddings to a caller's
\* inputs_embeds in place, the perturbation, and the encoder.
ModelForward(pert, next) ==
    /\ ctrace' = Append(ctrace, "forward")
    /\ IF InputsRejected(cin.input)
       THEN ClsRaise(ModelError) /\ UNCHANGED <<cin, cloc>>
       ELSE LET summed == AddPositions(IF cin.input = "embeds"
                                       THEN cin.inputs_embeds.v ELSE WordEmbeddings,
                                       cin.model.position_biased_input)
                emb == MaskEmbeddings(LayerNorm(summed), MaskOrOnes(cin.attention_mask))
                out == IF VatTrain
                       THEN GradTensor(AddPerturbation(emb, Gamma, pert.v),
                                       {"parameters"} \cup pert.graph)
                       ELSE GradTensor(emb, {"parameters"})
            IN  /\ cin' = IF cin.input = "embeds"
                          THEN [cin EXCEPT !.inputs_embeds = Tensor(summed)]
                          ELSE cin
                /\ IF ModelError # "none"
                   THEN ClsRaise(ModelError) /\ UNCHANGED cloc
                   ELSE /\ cloc' = [cloc EXCEPT
                                      !.embeddings = Tensor(emb),
                                      !.embedding_output = out,
                                      !.sequence_output =
                                          GradTensor(Encode(out.v), out.graph)]
                        /\ cpc' = next
                        /\ UNCHANGED cerr
    /\ UNCHANGED <<cgrad, cfgVars, attVars, mdlVars>>

\* forward, lines 889-902: the first pass of VAT, with r_adv_masked.
VatFirstForward ==
    /\ cpc = "vat_forward"
    /\ ModelForward(cloc.r_adv_masked, "vat_loss")

\* forward, lines 904-922: the logits and the loss of the first pass.
VatFirstLoss ==
    /\ cpc = "vat_loss"
    /\ LET logits == Classifier(cloc.sequence_output.v)
           active == ActiveLabels(cin.attention_mask, cin.labels.v)
       IN  cloc' = [cloc EXCEPT
                      !.logits = GradTensor(logits, cloc.sequence_output.graph),
                      !.active_labels = Tensor(active),
                      !.loss = GradTensor(CrossEntropyLoss(logits, active),
                                          cloc.sequence_output.graph)]
    /\ ctrace' = Append(ctrace, "loss")
    /\ cpc' = "vat_backward"
    /\ UNCHANGED <<cin, cgrad, cerr, cfgVars, attVars, mdlVars>>

\* forward, line 925: loss.backward().
VatBackward ==
    /\ cpc = "vat_backward"
    /\ cgrad' = [cgrad EXCEPT
                   !.classifier =
                       Accumulate(cgrad.classifier,
                                  ClassifierGrad(cloc.active_labels.v,
                                                 cloc.sequence_output.v)),
                   !.encoder =
                       Accumulate(cgrad.encoder,
                                  EncoderGrad(cloc.active_labels.v,
                                              cloc.embedding_output.v))]
    /\ cloc' = [cloc EXCEPT
                  !.r_adv_masked_grad =
                      IF "r_adv" \in cloc.loss.graph
                      THEN Tensor(PerturbationGrad(cloc.active_labels.v, Gamma))
                      ELSE NoneT]
    /\ ctrace' = Append(ctrace, "backward")
    /\ cpc' = "vat_perturbation"
    /\ UNCHANGED <<cin, cerr, cfgVars, attVars, mdlVars>>

\* forward, lines 926-927: the adversarial perturbation, under no_grad.
VatPerturbation ==
    /\ cpc = "vat_perturbation"
    /\ cloc' = [cloc EXCEPT
                  !.perturbation =
                      GradTensor(NewPerturbation(cloc.aspect_idx_mask.v,
                                                 cloc.r_adv_masked.v, LrAdv,
                                                 cloc.r_adv_masked_grad.v),
                                 UnderNoGrad(cloc.r_adv_masked.graph))]
    /\ ctrace' = Append(ctrace, "perturbation")
    /\ cpc' = "vat_zero_grad"
    /\ UNCHANGED <<cin, cgrad, cerr, cfgVars, attVars, mdlVars>>

\* forward, line 928: self.zero_grad().
VatZeroGrad ==
    /\ cpc = "vat_zero_grad"
    /\ cgrad' = [p \in DOMAIN cgrad |-> ZeroGrad(cgrad[p])]
    /\ ctrace' = Append(ctrace, "zero_grad")
    /\ cpc' = "forward"
    /\ UNCHANGED <<cin, cloc, cerr, cfgVars, attVars, mdlVars>>

\* forward, lines 931-944: the only pass of a plain call, the second pass of
\* VAT.
Forward ==
    /\ \/ cpc = "forward"
       \/ cpc = "start" /\ ~VatTrain
    /\ ModelForward(cloc.perturbation, "loss")

\* forward, lines 946-972: the logits, the loss when labels are given, and
\* the returned tuple.
Loss ==
    /\ cpc = "loss"
    /\ LET logits == IF cin.model.mark_enhanced_classifier
                     THEN MarkEnhancedClassifier(cloc.sequence_output.v, cin.marks.v)
                     ELSE Classifier(cloc.sequence_output.v)
           active == ActiveLabels(cin.attention_mask, cin.labels.v)
           graph == cloc.sequence_output.graph
       IN  IF cin.labels.st = "None"
           THEN /\ cloc' = [cloc EXCEPT
                              !.logits = GradTensor(logits, graph),
                              !.outputs = [loss |-> NoneT,
                                           logits |-> GradTensor(logits, graph)]]
                /\ UNCHANGED ctrace
           ELSE /\ cloc' = [cloc EXCEPT
                              !.logits = GradTensor(logits, graph),
                              !.active_labels = Tensor(active),
                              !.loss = GradTensor(CrossEntropyLoss(logits, active), graph),
                              !.outputs =
                                  [loss |-> GradTensor(CrossEntropyLoss(logits, active),
                                                       graph),
                                   logits |-> GradTensor(logits, graph)]]
                /\ ctrace' = Append(ctrace, "loss")
    /\ cpc' = "returned"
    /\ UNCHANGED <<cin, cgrad, cerr, cfgVars, attVars, mdlVars>>

\* The label tensors of a batch: every labelling of the first sequence, the
\* sequences after it labelled alternately by its rotation and by it.
LabelTensors ==
    {Tensor([t \in TIdx |->
                IF t[1] % 2 = 1 THEN x[t[2]] ELSE (x[t[2]] + 1) % NumLabels]) :
        x \in [KIdx -> LabelIdx]}

\* The attention masks of a batch: every mask of the first sequence, the
\* sequences after it alternately unpadded and masked as it is.
AttentionMasks ==
    {Tensor([t \in TIdx |-> IF t[1] % 2 = 1 THEN x[t[2]] ELSE 1]) :
        x \in [KIdx -> {0, 1}]}

\* The marks a caller supplies with a batch: the first token of every
\* sequence is marked.
GivenMarks == Tensor([t \in TIdx |-> IF t[2] = 1 THEN 1 ELSE 0])

\* Gradients accumulated by earlier batches.
EarlierGrads ==
    [classifier |-> Tensor([t \in LabelIdx \X HidIdx |-> 1]),
     encoder |-> Tensor([t \in HidIdx \X HidIdx |-> 1])]

NoGrads == [classifier |-> NoneT, encoder |-> NoneT]

InitCls ==
    \E vat \in BOOLEAN, mode \in {"train", "test"},
       lb \in {NoneT} \cup LabelTensors,
       am \in {NoneT} \cup AttentionMasks,
       mk \in {NoneT, GivenMarks},
       inp \in {"ids", "embeds", "both", "neither"},
       mec \in BOOLEAN, sd \in 1..NumSeeds, pre \in {NoGrads, EarlierGrads} :
        /\ (~vat) => mode = "train"
        /\ cin = [VAT |-> vat, mode |-> mode, labels |-> lb, attention_mask |-> am,
                  marks |-> mk, input |-> inp,
                  inputs_embeds |-> IF inp \in {"embeds", "both"}
                                    THEN Tensor(InputsEmbeds(sd)) ELSE NoneT,
                  seed |-> sd,
                  model |-> [mark_enhanced_classifier |-> mec,
                             position_biased_input |-> TRUE]]
        /\ cloc = NoClsLocals
        /\ cgrad = pre
        /\ cpc = "start" /\ ctrace = <<>> /\ cerr = "none"
        /\ cfg = BaseConfig(HiddenSize, NumHeads, {}, FALSE)
        /\ cfgStage = "base" /\ attn = NoSelfAttention
        /\ apc = "idle" /\ amod = NoSelfAttention /\ ain = None /\ aloc = None
        /\ aerr = "none" /\ amm = 0
        /\ mpc = "idle" /\ marg = None /\ mloc = None /\ merr = "none"

NextCls ==
    \/ VatAspectMask
    \/ VatSample
    \/ VatFirstForward
    \/ VatFirstLoss
    \/ VatBackward
    \/ VatPerturbation
    \/ VatZeroGrad
    \/ Forward
    \/ Loss

SpecCls == InitCls /\ [][NextCls]_vars


(***************************************************************************)
(* CustomDebertaModel.forward, with CustomDebertaEncoder.__init__ and      *)
(* CustomDebertaEncoder.forward.  Hidden states are terms: what is kept    *)
(* of a value is which layer produced it from which keys/values and which  *)
(* query.                                                                  *)
(***************************************************************************)
MaxLayers == 2          \* largest config.num_hidden_layers
MaxZSteps == 3          \* largest z_steps

\* The attributes CustomDebertaEncoder.__init__ sets (lines 541-565): the
\* two embedding tables exist only with relative attention, the mark
\* embeddings whenever the configuration has the attribute mark_embeddings.
NewEncoder(c) ==
    [relative_attention |-> c.relative_attention,
     has_pivot_phrase_embeddings |->
         c.relative_attention /\ c.pivot_phrase_embeddings,
     has_mark_embeddings |-> c.relative_attention /\ c.has_mark_embeddings]

\* The output of self.embeddings, embedding_output after line 700, and the
\* output of a layer called on keys/values kv with query q.
EmbeddingsTerm == [op |-> "embeddings"]
PerturbedTerm(x) == [op |-> "perturbed", x |-> x]
NoQuery == [op |-> "None"]
LayerTerm(i, kv, q) == [op |-> "layer", layer |-> i, kv |-> kv, query |-> q]

\* The mark_embeddings a layer is given: the pivot-phrase table, or the
\* per-token embeddings the encoder builds from marks.
PivotPhraseTable == [st |-> "tensor", kind |-> "pivot_phrase"]
TokenMarkEmbeddings == [st |-> "tensor", kind |-> "marks"]
MarkEmbeddingsKind(me) == IF me.st = "tensor" THEN me.kind ELSE None

\* The exception one call of a layer raises in its self-attention, "none"
\* when it raises none: relative positions of rank 3 and a query as long as
\* the keys are given, so that disentangled_att_bias fails in its
\* projections (lines 346-373) or in its return (line 456) if at all.
AttentionError(att, me) ==
    IF ~att.relative_attention THEN "none"
    ELSE IF ProjectionError(att, me) # "none" THEN ProjectionError(att, me)
    ELSE IF ~({"c2p", "p2c"} \subseteq att.pos_att_type) THEN "UnboundLocalError"
    ELSE "none"

\* The locals of the call before its first statement.
NoMdlLocals ==
    [embedding_output |-> Unbound, mark_embeddings |-> Unbound,
     hidden_states |-> Unbound, next_kv |-> Unbound,
     all_hidden_states |-> <<>>, i |-> 0, calls |-> <<>>,
     encoded_layers |-> Unbound, query_states |-> Unbound,
     extra |-> 0, sequence_output |-> Unbound]

\* The call raises exception e and ends.
MdlRaise(e) ==
    /\ merr' = e
    /\ mpc' = "raised"

\* forward, lines 673-687: the check of the inputs.
MdlInputs ==
    /\ mpc = "start"
    /\ IF InputsRejected(marg.input)
       THEN MdlRaise("ValueError")
       ELSE mpc' = "embeddings" /\ UNCHANGED merr
    /\ UNCHANGED <<marg, mloc, cfgVars, attVars, clsVars>>

\* forward, lines 689-701: the embeddings and the VAT perturbation.
MdlEmbeddings ==
    /\ mpc = "embeddings"
    /\ mloc' = [mloc EXCEPT
                  !.embedding_output =
                      IF marg.VAT /\ marg.mode = "train"
                      THEN PerturbedTerm(EmbeddingsTerm) ELSE EmbeddingsTerm]
    /\ mpc' = "encoder"
    /\ UNCHANGED <<marg, merr, cfgVars, attVars, clsVars>>

\* The mark_embeddings local after line 599: the pivot-phrase table when
\* the encoder has one.
AfterPivotPhrase(enc) ==
    IF enc.has_pivot_phrase_embeddings THEN PivotPhraseTable ELSE Unbound

\* Lines 600-604 build the per-token mark embeddings from marks.
BuildsMarkEmbeddings(enc) == enc.has_mark_embeddings

\* CustomDebertaEncoder.forward, lines 586-604: the mask, the relative
\* positions, and the mark_embeddings local, which only the two branches
\* assign; the second unsqueezes marks.
EncPrepare ==
    /\ mpc = "encoder"
    /\ IF BuildsMarkEmbeddings(marg.encoder) /\ ~marg.marks_given
       THEN MdlRaise("TypeError") /\ UNCHANGED mloc
       ELSE /\ mloc' = [mloc EXCEPT
                          !.hidden_states = mloc.embedding_output,
                          !.next_kv = mloc.embedding_output,
                          !.mark_embeddings =
                              IF BuildsMarkEmbeddings(marg.encoder)
                              THEN TokenMarkEmbeddings
                              ELSE AfterPivotPhrase(marg.encoder)]
            /\ mpc' = "layers"
            /\ UNCHANGED merr
    /\ UNCHANGED <<marg, cfgVars, attVars, clsVars>>

\* CustomDebertaEncoder.forward, lines 606-630: one turn of the loop over
\* the layers.
EncLayer ==
    /\ mpc = "layers"
    /\ mloc.i < marg.num_hidden_layers
    /\ IF mloc.mark_embeddings.st = "unbound"
       THEN MdlRaise("UnboundLocalError") /\ UNCHANGED mloc
       ELSE LET call == [layer |-> mloc.i + 1, kv |-> mloc.next_kv, query |-> NoQuery,
                         mark_embeddings |-> mloc.mark_embeddings,
                         marks_given |-> marg.marks_given]
                out == LayerTerm(mloc.i + 1, mloc.next_kv, NoQuery)
                err == AttentionError(marg.attention,
                                      MarkEmbeddingsKind(mloc.mark_embeddings))
            IN  IF err # "none"
                THEN /\ MdlRaise(err)
                     /\ mloc' = [mloc EXCEPT
                                   !.all_hidden_states = Append(@, mloc.hidden_states),
                                   !.calls = Append(@, call)]
                ELSE /\ mloc' = [mloc EXCEPT
                                   !.all_hidden_states = Append(@, mloc.hidden_states),
                                   !.calls = Append(@, call),
                                   !.hidden_states = out, !.next_kv = out,
                                   !.i = @ + 1]
                     /\ UNCHANGED <<mpc, merr>>
    /\ UNCHANGED <<marg, cfgVars, attVars, clsVars>>

\* CustomDebertaEncoder.forward, lines 632-640, and forward, line 711: the
\* encoder returns; encoded_layers is its tuple of hidden states.
EncReturn ==
    /\ mpc = "layers"
    /\ mloc.i = marg.num_hidden_layers
    /\ mloc' = [mloc EXCEPT
                  !.all_hidden_states = Append(@, mloc.hidden_states),
                  !.encoded_layers =
                      [st |-> "tuple", v |-> Append(mloc.all_hidden_states,
                                                    mloc.hidden_states)]]
    /\ mpc' = IF marg.z_steps > 1 THEN "z_steps" ELSE "return"
    /\ UNCHANGED <<marg, merr, cfgVars, attVars, clsVars>>

\* forward, lines 713-729: the first extra application of the last layer,
\* called without mark_embeddings and marks, and the append of its output
\* to encoded_layers, which is a tuple.
MdlZSteps ==
    /\ mpc = "z_steps"
    /\ LET n == Len(mloc.encoded_layers.v)
           kv == mloc.encoded_layers.v[n - 1]
           q == mloc.encoded_layers.v[n]
           call == [layer |-> marg.num_hidden_layers, kv |-> kv, query |-> q,
                    mark_embeddings |-> NoneT, marks_given |-> FALSE]
           err == AttentionError(marg.attention, None)
       IN  IF err # "none"
           THEN /\ MdlRaise(err)
                /\ mloc' = [mloc EXCEPT
                              !.hidden_states = kv, !.query_states = q,
                              !.calls = Append(@, call)]
           ELSE /\ MdlRaise("AttributeError")
                /\ mloc' = [mloc EXCEPT
                              !.hidden_states = kv,
                              !.query_states =
                                  LayerTerm(marg.num_hidden_layers, kv, q),
                              !.calls = Append(@, call),
                              !.extra = @ + 1]
    /\ UNCHANGED <<marg, cfgVars, attVars, clsVars>>

\* forward, lines 731-740: the sequence output is the last of
\* encoded_layers.
MdlReturn ==
    /\ mpc = "return"
    /\ mloc' = [mloc EXCEPT
                  !.sequence_output =
                      mloc.encoded_layers.v[Len(mloc.encoded_layers.v)]]
    /\ mpc' = "returned"
    /\ UNCHANGED <<marg, merr, cfgVars, attVars, clsVars>>

\* The configurations a model is built from: extended by add_extra_args,
\* which accepted the flags; the scalars are the defaults.
ModelConfigs ==
    {ExtendedConfig(BaseConfig(HiddenSize, NumHeads, types, relatt), hp) :
        types \in BasePosAttTypes, relatt \in BOOLEAN,
        hp \in {h \in HParams :
                  /\ ~MarksAndPivotPhrase(ExtendedConfig(
                          BaseConfig(HiddenSize, NumHeads, {}, TRUE), h))
                  /\ h.c2m_scalar = 1 /\ h.m2c_scalar = 1}}

InitMdl ==
    \E c \in ModelConfigs, layers \in 1..MaxLayers, z \in 0..MaxZSteps,
       inp \in {"ids", "embeds", "both", "neither"},
       mg \in BOOLEAN, vat \in BOOLEAN :
        /\ marg = [config |-> c, encoder |-> NewEncoder(c),
                   attention |-> NewSelfAttention(c),
                   num_hidden_layers |-> layers, z_steps |-> z,
                   input |-> inp, marks_given |-> mg,
                   VAT |-> vat, mode |-> IF vat THEN "train" ELSE None]
        /\ mloc = NoMdlLocals
        /\ mpc = "start" /\ merr = "none"
        /\ cfg = BaseConfig(HiddenSize, NumHeads, {}, FALSE)
        /\ cfgStage = "base" /\ attn = NoSelfAttention
        /\ apc = "idle" /\ amod = NoSelfAttention /\ ain = None /\ aloc = None
        /\ aerr = "none" /\ amm = 0
        /\ cpc = "idle" /\ cin = None /\ cloc = None /\ cgrad = None
        /\ ctrace = <<>> /\ cerr = "none"

NextMdl ==
    \/ MdlInputs
    \/ MdlEmbeddings
    \/ EncPrepare
    \/ EncLayer
    \/ EncReturn
    \/ MdlZSteps
    \/ MdlReturn

SpecMdl == InitMdl /\ [][NextMdl]_vars

(***************************************************************************)
(* The claims                                                              *)
(***************************************************************************)

\* C2 as stated: add_extra_args fails exactly when a flag of {c2p_att_pp,
\* p2c_att_pp, mark_enhanced_classifier} is enabled together with a flag of
\* {c2m, m2c}.
C2_AsClaimed ==
    cfgStage # "base" =>
        (cfgStage = "AssertionError"
         <=> ((cfg.c2p_att_pp_enabled \/ cfg.p2c_att_pp_enabled
               \/ cfg.mark_enhanced_classifier)
              /\ (cfg.c2m \/ cfg.m2c)))

\* C2, amended: add_extra_args fails exactly when c2p_att_pp or p2c_att_pp is
\* enabled together with c2m or m2c; the mark-enhanced classifier plays no
\* part, and every other assignment succeeds.
C2_MutualExclusion ==
    cfgStage # "base" =>
        /\ cfgStage = "AssertionError"
           <=> ((cfg.c2p_att_pp_enabled \/ cfg.p2c_att_pp_enabled)
                /\ (cfg.c2m \/ cfg.m2c))
        /\ cfgStage = "extended"
           <=> ~((cfg.c2p_att_pp_enabled \/ cfg.p2c_att_pp_enabled)
                 /\ (cfg.c2m \/ cfg.m2c))

\* add_extra_args has accepted the mark-enhanced classifier together with a
\* mark term.
C2_Witness ==
    /\ cfgStage = "extended"
    /\ cfg.mark_enhanced_classifier /\ cfg.c2m /\ cfg.m2c

\* C9: construction fails whenever hidden_size is not a multiple of
\* num_attention_heads, and every constructed module has
\* hidden_size % num_attention_heads = 0 and all_head_size = hidden_size.
C9_HeadsDivideHidden ==
    attn.state # "none" =>
        /\ cfg.hidden_size % cfg.num_attention_heads # 0
           => attn.state = "ValueError"
        /\ attn.state = "built"
           => /\ cfg.hidden_size % cfg.num_attention_heads = 0
              /\ attn.all_head_size = cfg.hidden_size
              /\ attn.num_attention_heads * attn.attention_head_size
                 = cfg.hidden_size

\* A construction was refused for a hidden size that is no multiple of the
\* number of heads.
C9_Witness ==
    /\ attn.state = "ValueError"
    /\ cfg.hidden_size = 3 /\ cfg.num_attention_heads = 2

\* The optional terms of pos_att_type.
OptionalTerms == {"c2p_pp", "p2c_pp", "c2m", "m2c"}

\* The call was given a relative_pos tensor of rank r.
GivenRank(r) == ain.relative_pos.st = "tensor" /\ ain.relative_pos.rank = r

\* The call was given relative positions its rank check accepts.
GivenValidRank == \E r \in {2, 3, 4} : GivenRank(r)

C5_AsClaimed ==
    (/\ amod.relative_attention
     /\ amod.pos_att_type = {"c2m", "m2c"}
     /\ GivenValidRank
     /\ ain.mark_embeddings = "marks"
     /\ ain.query_len = SeqLen)
    => /\ apc # "raised"
       /\ apc = "done" =>
             aloc.attention_scores.v
               = AddT(aloc.c2c.v, AddT(aloc.c2m_att.v, aloc.m2c_att.v))

\* C6 as stated, for a module with c2p and p2c and no optional term and a
\* call whose relative positions are None or of an accepted rank: the call
\* completes, the bias is c2p + p2c, and the scores are c2c plus that bias.
C6_AsClaimed ==
    (/\ amod.relative_attention
     /\ amod.pos_att_type = {"c2p", "p2c"}
     /\ ain.relative_pos.st = "None" \/ GivenValidRank
     /\ ain.query_len = SeqLen)
    => /\ apc # "raised"
       /\ apc = "done" =>
             /\ aloc.rel_att.v = AddT(aloc.c2p_att_orig.v, aloc.p2c_att_orig.v)
             /\ aloc.attention_scores.v = AddT(aloc.c2c.v, aloc.rel_att.v)

\* C7 as stated: a call given relative positions of rank 5 raises before any
\* matrix multiplication of the call.
C7_AsClaimed ==
    GivenRank(5) /\ amod.relative_attention =>
        /\ amm = 0
        /\ apc \in {"start", "raised"}

\* C7, amended: on a module with relative attention, a call given relative
\* positions of rank 5 raises ValueError in the rank check of
\* disentangled_att_bias: after the two multiplications of forward (the
\* projection and the content-to-content scores) and before any projection
\* or multiplication of a bias term.
C7_RaisesBeforeBias ==
    GivenRank(5) /\ amod.relative_attention =>
        /\ apc \in {"start", "bias_relative_pos", "raised"}
        /\ apc = "raised" =>
              /\ aerr = "ValueError"
              /\ amm = 2
              /\ aloc.score.st = "unbound"
              /\ aloc.pos_key_layer.st = "unbound"
              /\ aloc.pos_query_layer.st = "unbound"
              /\ aloc.rel_att.st = "None"

\* A call given relative positions of rank 5 has raised.
C7_Witness ==
    GivenRank(5) /\ apc = "raised" /\ aerr = "ValueError" /\ amm = 2

StepsNamed(s) == {i \in DOMAIN ctrace : ctrace[i] = s}

\* Every gradient of a parameter is zero or absent.
GradsCleared ==
    \A p \in DOMAIN cgrad :
        cgrad[p].st = "tensor" => \A t \in DOMAIN cgrad[p].v : cgrad[p].v[t] = 0

\* The second forward pass of a VAT training call has run.
SecondPassRun == VatTrain /\ Cardinality(StepsNamed("forward")) = 2 /\ cerr = "none"

\* C3: in a classifier forward with VAT and mode "train", the gradient
\* clearing comes after the backward of the first pass and before the second
\* forward pass, which starts with every parameter gradient cleared; the
\* perturbation of the second pass is detached, so that the graph of the
\* second loss does not reach the random perturbation of the first pass.
C3_ClearedAndDetached ==
    VatTrain =>
        /\ \A z \in StepsNamed("zero_grad") :
              /\ \E b \in StepsNamed("backward") : b < z
              /\ \A f \in StepsNamed("forward") :
                    f > z \/ \E b \in StepsNamed("backward") : f < b
        /\ Cardinality(StepsNamed("forward")) = 2 =>
              StepsNamed("zero_grad") # {}
        /\ cpc = "forward" => GradsCleared
        /\ SecondPassRun =>
              /\ cloc.perturbation.graph = {}
              /\ "r_adv" \notin cloc.embedding_output.graph
              /\ "r_adv" \notin cloc.sequence_output.graph
              /\ cpc = "returned" => "r_adv" \notin cloc.outputs.loss.graph

\* C3 witness: a VAT training call has returned; its backward left a
\* gradient on the masked random perturbation and on the parameters.
C3_Witness ==
    /\ cpc = "returned" /\ VatTrain
    /\ \E t \in EIdx : cloc.r_adv_masked_grad.v[t] # 0
    /\ GradsCleared /\ cgrad.classifier.st = "tensor"

\* C4: whenever a loss is computed with an attention mask given, in the
\* plain pass and in either pass of VAT, every position whose mask is 0
\* carries the ignore index in place of its label, and the loss is the sum
\* over the positions whose mask is 1.
C4_PaddingIgnored ==
    (cpc \in {"vat_backward", "returned"} /\ cin.labels.st = "tensor"
        /\ cin.attention_mask.st = "tensor") =>
        /\ \A t \in TIdx :
              cin.attention_mask.v[t] = 0 => cloc.active_labels.v[t] = IgnoreIndex
        /\ cloc.loss.v =
              SumTokens([t \in TIdx |->
                  IF cin.attention_mask.v[t] = 1
                  THEN TokenLoss(cloc.logits.v, t, cin.labels.v[t]) ELSE 0])

\* C4 witness: a VAT training call has computed both losses on a batch with
\* a padding position labelled as an aspect.
C4_Witness ==
    /\ cpc = "returned" /\ VatTrain
    /\ cin.attention_mask.st = "tensor"
    /\ \E t \in TIdx : cin.attention_mask.v[t] = 0 /\ cin.labels.v[t] = B_ASP_LABEL

\* The steps of a VAT training call, in the order of the code.
VatSteps ==
    <<"aspect_mask", "r_adv", "forward", "loss", "backward", "perturbation",
      "zero_grad", "forward", "loss">>

\* C10: a classifier forward with VAT and mode "train" that returns has
\* performed, in this order, the aspect mask, the random perturbation, the
\* first forward and loss, the backward, the adversarial perturbation, the
\* gradient clearing and the second forward and loss; the loss it returns
\* is the loss of the second pass, whose embeddings are the embeddings plus
\* gamma times the adversarial perturbation.
C10_SecondPassLoss ==
    (cpc = "returned" /\ VatTrain) =>
        /\ ctrace = VatSteps
        /\ Cardinality(StepsNamed("forward")) = 2
        /\ Cardinality(StepsNamed("backward")) = 1
        /\ \A t \in EIdx :
              cloc.embedding_output.v[t] =
                  cloc.embeddings.v[t] + Gamma * cloc.perturbation.v[t]
        /\ cloc.sequence_output.v = Encode(cloc.embedding_output.v)
        /\ cloc.outputs.logits.v =
              (IF cin.model.mark_enhanced_classifier
               THEN MarkEnhancedClassifier(cloc.sequence_output.v, cin.marks.v)
               ELSE Classifier(cloc.sequence_output.v))
        /\ cloc.outputs.loss.st = "tensor"
        /\ cloc.outputs.loss.v =
              CrossEntropyLoss(cloc.outputs.logits.v,
                               ActiveLabels(cin.attention_mask, cin.labels.v))

\* C10 witness: a VAT training call has returned a loss computed with a
\* perturbation that is not zero.
C10_Witness ==
    /\ cpc = "returned" /\ VatTrain
    /\ cloc.outputs.loss.st = "tensor"
    /\ \E t \in EIdx : cloc.perturbation.v[t] # 0

\* The loss of the first pass as a function of the perturbation r added to
\* the embeddings emb of that pass; the encoder's output is held as a table
\* of its values (f @@ <<>> is f).
FirstPassLoss(emb, r) ==
    LET sequence_output == Encode([t \in EIdx |-> emb[t] + Gamma * r[t]]) @@ <<>>
    IN  CrossEntropyLoss(Classifier(sequence_output),
                         ActiveLabels(cin.attention_mask, cin.labels.v))

\* r with one unit added at index t.
UnitStep(r, t) == [u \in EIdx |-> IF u = t THEN r[u] + 1 ELSE r[u]]

\* The token of index t is labelled as an aspect.
AspectToken(t) == cin.labels.v[<<t[1], t[2]>>] \in {B_ASP_LABEL, I_ASP_LABEL}

\* C11: once built, the adversarial perturbation is zero in every component
\* of a token labelled neither 1 nor 2, and for a token labelled 1 or 2 it
\* is the masked random sample plus lr_adv times the gradient of the
\* first-pass loss with respect to that sample (the loss is linear in the
\* sample: the gradient is its change under a unit step).
C11_AspectOnly ==
    (cpc = "vat_zero_grad") =>
        LET loss == FirstPassLoss(cloc.embeddings.v, cloc.r_adv_masked.v)
        IN  \A t \in EIdx :
            /\ cloc.r_adv_masked_grad.v[t] =
                  FirstPassLoss(cloc.embeddings.v, UnitStep(cloc.r_adv_masked.v, t))
                  - loss
            /\ cloc.perturbation.v[t] =
                  (IF AspectToken(t)
                   THEN cloc.r_adv_masked.v[t] + LrAdv * cloc.r_adv_masked_grad.v[t]
                   ELSE 0)

\* C11 witness: a perturbation has been built for a batch in which a token
\* that is no aspect and a token that is one both have a gradient.
C11_Witness ==
    /\ cpc = "vat_zero_grad"
    /\ \E t \in EIdx : ~AspectToken(t) /\ cloc.r_adv_masked_grad.v[t] # 0
    /\ \E t \in EIdx : AspectToken(t) /\ cloc.perturbation.v[t] # 0


\* A call of the model's forward has been made.
ModelCalled == StepsNamed("forward") # {}

\* C12: a call of the model's forward with both input_ids and inputs_embeds,
\* or with neither, raises ValueError, and no other call does; it raises
\* before the embeddings and the encoder have computed anything (the
\* caller's inputs_embeds are as given), and nothing is returned.
C12_InputContract ==
    /\ (ModelCalled /\ cin.input \in {"both", "neither"}) =>
          /\ cpc = "raised" /\ cerr = "ValueError"
          /\ Cardinality(StepsNamed("forward")) = 1
          /\ cloc.embeddings.st = "unbound"
          /\ cloc.embedding_output.st = "unbound"
          /\ cloc.sequence_output.st = "unbound"
          /\ cloc.logits.st = "unbound"
          /\ cloc.outputs.st = "unbound"
          /\ cin.input = "both" => cin.inputs_embeds.v = InputsEmbeds(cin.seed)
    /\ cerr = "ValueError" => (ModelCalled /\ cin.input \in {"both", "neither"})

\* C12 witness: the model's forward has raised on input_ids given together
\* with inputs_embeds.
C12_Witness ==
    /\ cpc = "raised" /\ cerr = "ValueError"
    /\ cin.input = "both" /\ cin.inputs_embeds.st = "tensor"


\* C13: a classifier forward with VAT, mode "train" and no labels, once it
\* has taken a step, has raised an error; it has made no call of the
\* model's forward and has returned nothing.
C13_LabelsRequired ==
    (cin.VAT /\ cin.mode = "train" /\ cin.labels.st = "None" /\ cpc # "start") =>
        /\ cpc = "raised" /\ cerr = "AttributeError"
        /\ StepsNamed("forward") = {}
        /\ cloc.sequence_output.st = "unbound"
        /\ cloc.outputs.st = "unbound"

\* C13 witness: a VAT training call without labels has raised, for inputs
\* and marks the model's forward would have accepted.
C13_Witness ==
    /\ cin.VAT /\ cin.mode = "train" /\ cin.labels.st = "None"
    /\ cpc = "raised" /\ cerr = "AttributeError"
    /\ cin.input = "ids" /\ cin.marks.st = "tensor"


\* The model was built from a configuration extended with default flags.
DefaultFlags ==
    /\ ~marg.config.c2p_att_pp_enabled /\ ~marg.config.p2c_att_pp_enabled
    /\ ~marg.config.c2m /\ ~marg.config.m2c
    /\ ~marg.config.mark_enhanced_classifier
    /\ ~marg.config.pivot_phrase_embeddings

\* The call of the model's forward has ended.
MdlEnded == mpc \in {"raised", "returned"}

\* C14, as claimed: a forward call without VAT and without marks, of a
\* model built with default flags (the two standard position terms, no
\* refinement steps) on one of input_ids and inputs_embeds, ends without
\* error.
C14_AsClaimed ==
    (MdlEnded /\ DefaultFlags /\ ~marg.VAT /\ ~marg.marks_given
        /\ marg.input \in {"ids", "embeds"} /\ marg.z_steps = 0
        /\ marg.attention.pos_att_type = {"c2p", "p2c"}) =>
        merr = "none"



\* The call is in plain mode: VAT is false, or the mode is not "train".
PlainMode == ~cin.VAT \/ cin.mode # "train"

\* The steps of a plain call so far: at most one call of the model's forward,
\* exactly one once the call has ended, the perturbation still the scalar 0
\* and nothing added to the embeddings, no backward pass, no clearing of
\* gradients, no sampled or updated perturbation.
PlainSteps ==
    /\ Cardinality(StepsNamed("forward")) = (IF cpc = "start" THEN 0 ELSE 1)
    /\ \A s \in {"aspect_mask", "r_adv", "backward", "perturbation", "zero_grad"} :
           StepsNamed(s) = {}
    /\ cloc.perturbation.st = "0"
    /\ cloc.r_adv.st = "unbound" /\ cloc.r_adv_masked.st = "unbound"
    /\ cloc.embedding_output.st = "tensor" =>
           /\ cloc.embedding_output.v = cloc.embeddings.v
           /\ cloc.embedding_output.graph = {"parameters"}

\* C15: every step of a classifier forward in plain mode (VAT false, or a
\* mode other than "train") leaves the gradients of the parameters as they
\* were, and after it the call has made exactly one call of the model's
\* forward, has added no perturbation to the embeddings, and has run no
\* backward pass and no clearing of gradients.
C15_PlainPass ==
    [][PlainMode => (cgrad' = cgrad /\ PlainSteps')]_vars

\* C15 witness: a call with VAT true in mode "test" has returned its loss,
\* the gradients of an earlier backward pass still in place.
C15_Witness ==
    /\ cin.VAT /\ cin.mode = "test" /\ cin.labels.st = "tensor"
    /\ cpc = "returned" /\ cloc.loss.st = "tensor"
    /\ cgrad = EarlierGrads
    /\ Cardinality(StepsNamed("forward")) = 1


\* The term of the bias named by a position-attention type: the scaled
\* tensor the call computed for it when the type is enabled, zero when not.
EnabledTerm(type, x) ==
    IF type \in amod.pos_att_type THEN x.v ELSE ZeroT(ain.query_len)

\* C16 as stated, for a module whose enabled terms are any subset of c2p,
\* p2c, c2m and m2c and a call with valid arguments (mark embeddings and
\* marks given when c2m or m2c is enabled): the call completes, and the bias
\* it returns is the sum of the enabled terms and of nothing else.
C16_AsClaimed ==
    (/\ amod.relative_attention
     /\ amod.pos_att_type \subseteq {"c2p", "p2c", "c2m", "m2c"}
     /\ GivenValidRank
     /\ ({"c2m", "m2c"} \cap amod.pos_att_type # {}) => ain.mark_embeddings = "marks"
     /\ ain.query_len = SeqLen)
    => /\ apc # "raised"
       /\ apc = "done" =>
             aloc.rel_att.v
               = AddT(AddT(EnabledTerm("c2p", aloc.c2p_att),
                           EnabledTerm("p2c", aloc.p2c_att)),
                      AddT(EnabledTerm("c2m", aloc.c2m_att),
                           EnabledTerm("m2c", aloc.m2c_att)))


\* C17 as stated, for a model with z_steps = n > 1 whose encoder stack has
\* completed: the call returns, having run n - 1 extra applications of the
\* last layer, each with the input of the last layer as keys and values and
\* the output before it as query, and the sequence output is the output of
\* the last of them.
C17_AsClaimed ==
    (marg.z_steps > 1 /\ mloc.encoded_layers.st = "tuple" /\ MdlEnded)
    => /\ mpc = "returned"
       /\ mloc.extra = marg.z_steps - 1
       /\ \A j \in 1..Len(mloc.calls) :
             j > marg.num_hidden_layers =>
                /\ mloc.calls[j].layer = marg.num_hidden_layers
                /\ mloc.calls[j].kv = mloc.encoded_layers.v[marg.num_hidden_layers]
       /\ mloc.sequence_output = mloc.query_states


\* C18 as stated, for a module with c2p and p2c and a call without
\* relative positions, or with a query longer than the key, whose other
\* arguments are valid: the call completes, and its bias has one entry for
\* every (batch, head, query, key) index.
C18_AsClaimed ==
    (/\ amod.relative_attention
     /\ {"c2p", "p2c"} \subseteq amod.pos_att_type
     /\ ProjectionError(amod, ain.mark_embeddings) = "none"
     /\ ain.relative_pos.st = "None" \/ (GivenValidRank /\ ain.query_len # SeqLen))
    => /\ apc # "raised"
       /\ apc = "done" => DOMAIN aloc.rel_att.v = Idx4(ain.query_len)


\* C19 as stated, for an encoder with relative attention built from a
\* configuration with pivot_phrase_embeddings: every layer of the stack is
\* called with the pivot-phrase table as its mark_embeddings, and the
\* attention, slicing that table to the span, raises no error of shape.
C19_AsClaimed ==
    (marg.config.pivot_phrase_embeddings /\ marg.encoder.relative_attention)
    => /\ \A j \in 1..Len(mloc.calls) :
             j <= marg.num_hidden_layers =>
                MarkEmbeddingsKind(mloc.calls[j].mark_embeddings) = "pivot_phrase"
       /\ merr # "RuntimeError"


\* The call is about to gather the c2p term.
GathersC2p == apc = "bias_c2p" /\ "c2p" \in amod.pos_att_type

\* The call is about to gather the p2c term, for a query as long as the key.
GathersP2c ==
    apc = "bias_p2c" /\ "p2c" \in amod.pos_att_type /\ ain.query_len = SeqLen

\* The rows of the slice of the relative-embedding table.
SliceRows ==
    DOMAIN SliceSpan(RelEmbeddings, amod.max_relative_positions, aloc.att_span)

\* C20: where the c2p or the p2c term is gathered, att_span is
\* min(max(query_len, key_len), max_relative_positions), and every index of
\* the gather, for every query and key position and whatever the relative
\* position there, lies in 0..2*att_span-1, hence in
\* 0..2*max_relative_positions-1, and is a row of the slice of 2*att_span
\* rows of the relative-embedding table.
C20_IndicesClamped ==
    /\ (GathersC2p \/ GathersP2c) =>
          /\ aloc.att_span = Min(Max(ain.query_len, SeqLen), amod.max_relative_positions)
          /\ SliceRows = 0..(2 * aloc.att_span - 1)
          /\ SliceRows \subseteq 0..(2 * amod.max_relative_positions - 1)
    /\ GathersC2p =>
          \A q \in 1..ain.query_len, k \in KIdx :
              C2pPos(ain.relative_pos, aloc.att_span, q, k) \in SliceRows
    /\ GathersP2c =>
          \A i \in KIdx, j \in KIdx :
              P2cPos(ain.relative_pos, aloc.att_span, i, j) \in SliceRows

\* C20 witness: the c2p term has been gathered and the p2c term is about to
\* be, for relative positions that the c2p clamp cut at its upper limit and
\* the p2c clamp cuts at 0.
C20_Witness ==
    /\ GathersP2c /\ aloc.c2p_att_orig.st = "tensor"
    /\ \E q \in 1..ain.query_len, k \in KIdx :
          RelPosAt(ain.relative_pos, q, k) + aloc.att_span > 2 * aloc.att_span - 1
    /\ \E i \in KIdx, j \in KIdx :
          (0 - RelPosAt(ain.relative_pos, i, j)) + aloc.att_span < 0


\* The pivot-phrase p2c term laid out as the standard term is: gathered
\* along the key rows and transposed, so that index (i, j) holds the term of
\* query i and key j.
P2cPivotPhraseTerm ==
    TransposeLast(P2cGather(aloc.key_layer.v, aloc.pp_query_layer.v,
                            ain.relative_pos, aloc.att_span))

\* C21 as stated: where the pivot-phrase branch of p2c was taken, the value
\* of p2c_att at every index (batch, head, query i, key j) whose query
\* position is marked is the pivot-phrase p2c term of that pair (i, j).
C21_AsClaimed ==
    (aloc.p2c_att.st = "tensor" /\ aloc.p2c_att_pp.st = "tensor") =>
        \A t \in Idx4(ain.query_len) :
            ain.marks.v[<<t[1], t[3]>>] = 1 =>
                aloc.p2c_att.v[t] = P2cPivotPhraseTerm[t]



\* The gradients after the backward of the first pass of a call that started
\* with the gradients of earlier batches accumulated on the parameters.
EarlierAndFirstPass ==
    [classifier |-> Accumulate(EarlierGrads.classifier,
                               ClassifierGrad(cloc.active_labels.v,
                                              cloc.sequence_output.v)),
     encoder |-> Accumulate(EarlierGrads.encoder,
                            EncoderGrad(cloc.active_labels.v,
                                        cloc.embedding_output.v))]

\* C22 as stated: where a classifier forward with VAT and mode "train"
\* clears gradients that are those of earlier batches plus those of its own
\* first pass, the gradients of the earlier batches are what is left; and
\* no step after the clearing changes the gradients, so that they are there
\* when the call returns.
C22_AsClaimed ==
    [][/\ (cpc = "vat_zero_grad" /\ cgrad = EarlierAndFirstPass)
           => cgrad' = EarlierGrads
       /\ (cin.VAT /\ cin.mode = "train" /\ cpc \in {"forward", "loss"})
           => cgrad' = cgrad]_vars


\* C23 as stated: the inputs_embeds tensor of the caller holds the values it
\* was given at every point of the call, and the embeddings of the pass that
\* ran last are those of the given values with the position embeddings added
\* once.
C23_AsClaimed ==
    cin.inputs_embeds.st = "tensor" =>
        /\ cin.inputs_embeds.v = InputsEmbeds(cin.seed)
        /\ cloc.embeddings.st = "tensor" =>
              cloc.embeddings.v =
                  MaskEmbeddings(LayerNorm(AddPositions(InputsEmbeds(cin.seed),
                                                        cin.model.position_biased_input)),
                                 MaskOrOnes(cin.attention_mask))

====
